---- MODULE Spec2Model ----
(***************************************************************************)
(* Model of the roshambo-sol on-chain program: the instruction decoder     *)
(* (instruction.rs), the account codec (state.rs) and the five instruction *)
(* handlers (processor.rs), together with the parts of the host ledger and *)
(* of the token program that the handlers call.                            *)
(***************************************************************************)
EXTENDS Integers, Sequences, FiniteSets, TLC

(***************************************************************************)
(* u64 arithmetic.  TLC's integers are 32 bits wide, so a u64 is kept as   *)
(* four 16-bit limbs, least significant first, and every operation works   *)
(* limb by limb with an explicit carry.  The width is the real one.        *)
(***************************************************************************)
LimbBase == 256 * 256

U64Of(n) == << n % LimbBase, (n \div LimbBase) % LimbBase, 0, 0 >>

U64_MAX == << LimbBase - 1, LimbBase - 1, LimbBase - 1, LimbBase - 1 >>

\* 2^63, the least value whose double does not fit in a u64
U64_HALF == << 0, 0, 0, LimbBase \div 2 >>

RECURSIVE LtFrom(_, _, _)
LtFrom(a, b, i) ==
    IF i = 0 THEN FALSE
    ELSE IF a[i] # b[i] THEN a[i] < b[i]
    ELSE LtFrom(a, b, i - 1)

\* a < b on u64
LtU64(a, b) == LtFrom(a, b, 4)

\* a > b on u64
GtU64(a, b) == LtFrom(b, a, 4)

RECURSIVE AddFrom(_, _, _, _)
AddFrom(a, b, i, carry) ==
    IF i > 4 THEN << carry >>
    ELSE LET s == a[i] + b[i] + carry
         IN  << s % LimbBase >> \o AddFrom(a, b, i + 1, s \div LimbBase)

\* u64::overflowing_add: the wrapped sum and whether it overflowed
overflowing_add(a, b) ==
    LET r == AddFrom(a, b, 1, 0)
    IN  [val |-> SubSeq(r, 1, 4), overflow |-> r[5] = 1]

RECURSIVE SubFrom(_, _, _, _)
SubFrom(a, b, i, borrow) ==
    IF i > 4 THEN << borrow >>
    ELSE LET d == a[i] - b[i] - borrow
         IN  IF d < 0 THEN << d + LimbBase >> \o SubFrom(a, b, i + 1, 1)
             ELSE << d >> \o SubFrom(a, b, i + 1, 0)

\* u64::overflowing_sub
overflowing_sub(a, b) ==
    LET r == SubFrom(a, b, 1, 0)
    IN  [val |-> SubSeq(r, 1, 4), overflow |-> r[5] = 1]

RECURSIVE RemFrom(_, _, _, _)
RemFrom(a, m, i, r) ==
    IF i = 0 THEN r
    ELSE RemFrom(a, m, i - 1, (r * LimbBase + a[i]) % m)

\* a % m for a small modulus m, by long division from the top limb
RemU64(a, m) == RemFrom(a, m, 4, 0)

\* u64::to_le_bytes: eight bytes, least significant first
to_le_bytes(a) ==
    << a[1] % 256, a[1] \div 256, a[2] % 256, a[2] \div 256,
       a[3] % 256, a[3] \div 256, a[4] % 256, a[4] \div 256 >>

\* u64::from_le_bytes
from_le_bytes(b) ==
    << b[1] + 256 * b[2], b[3] + 256 * b[4], b[5] + 256 * b[6], b[7] + 256 * b[8] >>

(***************************************************************************)
(* Results.  Ok(v) and Err(e) have the same shape so that they compare.    *)
(***************************************************************************)
Ok(v) == [err |-> "Ok", val |-> v]

Err(e) == [err |-> e, val |-> << >>]

IsOk(r) == r.err = "Ok"

(***************************************************************************)
(* error.rs                                                                *)
(***************************************************************************)
InvalidInstruction == "InvalidInstruction"

NotRentExempt == "NotRentExempt"

GameEnded == "GameEnded"

AmountOverflow == "AmountOverflow"

\* used by process_new_game; not among the variants error.rs declares
InvalidBetAmount == "InvalidBetAmount"

(***************************************************************************)
(* instruction.rs: the wire decoder                                        *)
(***************************************************************************)
\* slice::get(from..to) with 0-based, end-exclusive bounds: None (<< >> in a
\* one-element wrapper) when the range runs past the end
SliceGet(input, from, to) ==
    IF to <= Len(input) THEN << SubSeq(input, from + 1, to) >> ELSE << >>

\* .and_then(|slice| slice.try_into().ok()).map(u64::from_le_bytes)
\*     .ok_or(InvalidInstruction): the conversion to [u8; 8] succeeds only for
\* a slice of exactly eight bytes
ReadU64(opt) ==
    IF opt = << >> THEN Err(InvalidInstruction)
    ELSE IF Len(opt[1]) # 8 THEN Err(InvalidInstruction)
    ELSE Ok(from_le_bytes(opt[1]))

unpack_config(input) ==
    LET min_bet_amount == ReadU64(SliceGet(input, 0, 8))
        max_bet_amount == ReadU64(SliceGet(input, 9, 16))
    IN  IF ~IsOk(min_bet_amount) THEN Err(InvalidInstruction)
        ELSE IF ~IsOk(max_bet_amount) THEN Err(InvalidInstruction)
        ELSE Ok(<< min_bet_amount.val, max_bet_amount.val >>)

\* unpack_amount with a short payload read as 0 instead of refused
unpack_amount_or_default(input) ==
    IF Len(input) < 8 THEN Ok(U64Of(0)) ELSE ReadU64(SliceGet(input, 0, 8))

unpack_amount(input) == ReadU64(SliceGet(input, 0, 8))

unpack_claim_reward(input) ==
    LET host_seed == ReadU64(SliceGet(input, 0, 8))
        public_seed == ReadU64(SliceGet(input, 9, 16))
    IN  IF ~IsOk(host_seed) THEN Err(InvalidInstruction)
        ELSE IF ~IsOk(public_seed) THEN Err(InvalidInstruction)
        ELSE Ok(<< host_seed.val, public_seed.val >>)

\* The decoded instruction: its name and its (one or two) u64 fields
Instruction(name, fields) == [name |-> name, fields |-> fields]

\* RoshamboInstruction::unpack
unpack(input) ==
    IF input = << >> THEN Err(InvalidInstruction)
    ELSE LET tag == Head(input)
             rest == Tail(input)
         IN  CASE tag = 0 ->
                    LET r == unpack_config(rest)
                    IN  IF IsOk(r) THEN Ok(Instruction("Initialize", r.val)) ELSE r
               [] tag = 1 ->
                    LET r == unpack_amount(rest)
                    IN  IF IsOk(r) THEN Ok(Instruction("NewGame", << r.val >>)) ELSE r
               [] tag = 2 ->
                    LET r == unpack_claim_reward(rest)
                    IN  IF IsOk(r) THEN Ok(Instruction("ClaimReward", r.val)) ELSE r
               [] tag = 3 ->
                    LET r == unpack_config(rest)
                    IN  IF IsOk(r) THEN Ok(Instruction("UpdateConfig", r.val)) ELSE r
               [] tag = 4 ->
                    LET r == unpack_amount(rest)
                    IN  IF IsOk(r) THEN Ok(Instruction("Withdraw", << r.val >>)) ELSE r
               [] OTHER -> Err(InvalidInstruction)

(***************************************************************************)
(* state.rs: the account codec                                             *)
(***************************************************************************)
INITIALIZED_BYTES == 1

U64_LENGTH == 8

PUBKEY_BYTES == 32

OPTIONAL_U8 == 5

GAME_ACCOUNT_STATE_SPACE ==
    INITIALIZED_BYTES + U64_LENGTH + PUBKEY_BYTES + OPTIONAL_U8

CONFIG_ACCOUNT_STATE_SPACE ==
    INITIALIZED_BYTES + U64_LENGTH + U64_LENGTH + U64_LENGTH + PUBKEY_BYTES + PUBKEY_BYTES

\* COption<u8>: << >> is None and << v >> is Some(v)
COptionNone == << >>

COptionSome(v) == << v >>

is_some(opt) == opt # << >>

\* A Pubkey is its 32 bytes; Pubkey::new_from_array and as_ref copy them
Pubkey(n) == [i \in 1..PUBKEY_BYTES |-> IF i = 1 THEN n ELSE 0]

ZeroBytes(n) == [i \in 1..n |-> 0]

\* struct Game
Game(is_initialized, bet_amount, game_creator_pubkey, result) ==
    [is_initialized |-> is_initialized,
     bet_amount |-> bet_amount,
     game_creator_pubkey |-> game_creator_pubkey,
     result |-> result]

\* struct Config
Config(is_initialized, total_games, min_bet_amount, max_bet_amount, owner_pubkey, mint_token_pubkey) ==
    [is_initialized |-> is_initialized,
     total_games |-> total_games,
     min_bet_amount |-> min_bet_amount,
     max_bet_amount |-> max_bet_amount,
     owner_pubkey |-> owner_pubkey,
     mint_token_pubkey |-> mint_token_pubkey]

\* pack_coption_u8 with the body byte of Some never written
pack_coption_u8_tag_only(src, dst) ==
    IF is_some(src) THEN << 1, 0, 0, 0, dst[5] >>
    ELSE << 0, 0, 0, 0, dst[5] >>

\* pack_coption_u8: writes the 4-byte tag, and the body byte only for Some;
\* for None the body byte of dst is left as it was
pack_coption_u8(src, dst) ==
    IF is_some(src) THEN << 1, 0, 0, 0, src[1] >>
    ELSE << 0, 0, 0, 0, dst[5] >>

\* unpack_coption_u8 reading only the first byte of the tag
unpack_coption_u8_first_byte(src) ==
    IF src[1] = 0 THEN Ok(COptionNone) ELSE Ok(COptionSome(src[5]))

unpack_coption_u8(src) ==
    LET tag == SubSeq(src, 1, 4)
        body == src[5]
    IN  IF tag = << 0, 0, 0, 0 >> THEN Ok(COptionNone)
        ELSE IF tag = << 1, 0, 0, 0 >> THEN Ok(COptionSome(body))
        ELSE Err("InvalidAccountData")

\* The is_initialized byte: [0] => false, [1] => true, anything else an error
UnpackBool(b) ==
    IF b = 0 THEN Ok(FALSE)
    ELSE IF b = 1 THEN Ok(TRUE)
    ELSE Err("InvalidAccountData")

\* `b as u8`
BoolAsU8(b) == IF b THEN 1 ELSE 0

\* Game::unpack_from_slice, on a slice of at least GAME_ACCOUNT_STATE_SPACE bytes
Game_unpack_from_slice(src) ==
    LET is_initialized == UnpackBool(src[1])
        bet_amount == SubSeq(src, 2, 9)
        game_creator_pubkey == SubSeq(src, 10, 41)
        result == unpack_coption_u8(SubSeq(src, 42, 46))
    IN  IF ~IsOk(is_initialized) THEN Err("InvalidAccountData")
        ELSE IF ~IsOk(result) THEN Err("InvalidAccountData")
        ELSE Ok(Game(is_initialized.val, from_le_bytes(bet_amount),
                     game_creator_pubkey, result.val))

\* Game::pack_into_slice: the new content of the first 46 bytes of dst
Game_pack_into_slice(self, dst) ==
    << BoolAsU8(self.is_initialized) >>
        \o to_le_bytes(self.bet_amount)
        \o self.game_creator_pubkey
        \o pack_coption_u8(self.result, SubSeq(dst, 42, 46))
        \o SubSeq(dst, GAME_ACCOUNT_STATE_SPACE + 1, Len(dst))

\* Config::unpack_from_slice, on a slice of at least CONFIG_ACCOUNT_STATE_SPACE bytes
Config_unpack_from_slice(src) ==
    LET is_initialized == UnpackBool(src[1])
    IN  IF ~IsOk(is_initialized) THEN Err("InvalidAccountData")
        ELSE Ok(Config(is_initialized.val,
                       from_le_bytes(SubSeq(src, 2, 9)),
                       from_le_bytes(SubSeq(src, 10, 17)),
                       from_le_bytes(SubSeq(src, 18, 25)),
                       SubSeq(src, 26, 57),
                       SubSeq(src, 58, 89)))

\* Config::pack_into_slice
Config_pack_into_slice(self, dst) ==
    << BoolAsU8(self.is_initialized) >>
        \o to_le_bytes(self.total_games)
        \o to_le_bytes(self.min_bet_amount)
        \o to_le_bytes(self.max_bet_amount)
        \o self.owner_pubkey
        \o self.mint_token_pubkey
        \o SubSeq(dst, CONFIG_ACCOUNT_STATE_SPACE + 1, Len(dst))

\* Game_is_initialized answering false for every record
Game_is_initialized_never(self) == FALSE

\* IsInitialized for Game
Game_is_initialized(self) == self.is_initialized

\* Config_is_initialized answering false for every record
Config_is_initialized_never(self) == FALSE

\* IsInitialized for Config
Config_is_initialized(self) == self.is_initialized

\* Pack::unpack_unchecked: the length check, then unpack_from_slice
Game_unpack_unchecked(input) ==
    IF Len(input) # GAME_ACCOUNT_STATE_SPACE THEN Err("InvalidAccountData")
    ELSE Game_unpack_from_slice(input)

Config_unpack_unchecked(input) ==
    IF Len(input) # CONFIG_ACCOUNT_STATE_SPACE THEN Err("InvalidAccountData")
    ELSE Config_unpack_from_slice(input)

\* Pack::unpack: unpack_unchecked, then the record must be initialized
Game_unpack(input) ==
    LET r == Game_unpack_unchecked(input)
    IN  IF ~IsOk(r) THEN r
        ELSE IF ~r.val.is_initialized THEN Err("UninitializedAccount")
        ELSE r

Config_unpack(input) ==
    LET r == Config_unpack_unchecked(input)
    IN  IF ~IsOk(r) THEN r
        ELSE IF ~r.val.is_initialized THEN Err("UninitializedAccount")
        ELSE r

\* Pack::pack: the length check, then pack_into_slice; the value is the new data
Game_pack(src, dst) ==
    IF Len(dst) # GAME_ACCOUNT_STATE_SPACE THEN Err("InvalidAccountData")
    ELSE Ok(Game_pack_into_slice(src, dst))

Config_pack(src, dst) ==
    IF Len(dst) # CONFIG_ACCOUNT_STATE_SPACE THEN Err("InvalidAccountData")
    ELSE Ok(Config_pack_into_slice(src, dst))

(***************************************************************************)
(* The host ledger as the handlers see it.  An account is named by an id;  *)
(* its key is a Pubkey.  A ledger L holds, per account, the lamports, the  *)
(* data of the accounts this program owns (Config and Game records) and    *)
(* the amount of the token accounts, which the token program owns.  The    *)
(* mint and the owner of a token account never change once it exists, so   *)
(* they are not part of the state.                                         *)
(***************************************************************************)
AccountIds ==
    << "Alice", "Bob", "House", "House2", "AliceTok", "BobTok",
       "Cfg1", "Cfg2", "G1", "G2", "Mint1", "Mint2", "PDA" >>

\* Each account's key: the i-th account has the key Pubkey(i)
KeyTable ==
    [id \in {AccountIds[i] : i \in 1..Len(AccountIds)} |->
        Pubkey(CHOOSE i \in 1..Len(AccountIds) : AccountIds[i] = id)]

\* AccountInfo::key
key(id) == KeyTable[id]

\* An AccountInfo handed to a handler: the account and its is_signer flag
AccountInfo(id, is_signer) == [id |-> id, is_signer |-> is_signer]

\* Pubkey::find_program_address(&[b"roshambo"], program_id): one fixed key
pda == key("PDA")

\* Rent::minimum_balance with the host's default rent parameters
minimum_balance(data_len) == U64Of((128 + data_len) * 3480 * 2)

\* is_exempt with the comparison left out
is_exempt_always(lamports, data_len) == TRUE

\* Rent::is_exempt
is_exempt(lamports, data_len) == ~LtU64(lamports, minimum_balance(data_len))

\* An arithmetic operator of the source (+, *) on u64: with overflow checks
\* compiled in the program panics, without them the value wraps
UncheckedAdd(a, b, overflow_checks) ==
    LET r == overflowing_add(a, b)
    IN  IF r.overflow /\ overflow_checks THEN Err("Panic") ELSE Ok(r.val)

\* a * 2
UncheckedDouble(a, overflow_checks) == UncheckedAdd(a, a, overflow_checks)

\* u64::checked_add(..).ok_or(AmountOverflow)
checked_add(a, b) ==
    LET r == overflowing_add(a, b)
    IN  IF r.overflow THEN Err(AmountOverflow) ELSE Ok(r.val)

\* The token accounts there are: the players' accounts and the pools, whose
\* address is a house's key and whose owner is the derived address
TokenMint ==
    [a \in {"AliceTok", "BobTok", "House", "House2"} |->
        IF a = "BobTok" THEN key("Mint2") ELSE key("Mint1")]

TokenOwner ==
    [a \in {"AliceTok", "BobTok", "House", "House2"} |->
        IF a = "AliceTok" THEN key("Alice")
        ELSE IF a = "BobTok" THEN key("Bob")
        ELSE pda]

\* TokenAccount::unpack of a token account's data
TokenAccount(L, id) ==
    [mint |-> TokenMint[id], owner |-> TokenOwner[id], amount |-> L.token[id]]

(***************************************************************************)
(* The token program's Transfer, reached by invoke / invoke_signed.        *)
(* authority_signed: the authority account is a signer of the call (the    *)
(* player's own signature, or the seeds of the derived address).           *)
(* The token program account handed in is taken to be the token program.   *)
(***************************************************************************)
TokenTransfer(L, source, destination, authority, authority_signed, amount) ==
    IF source \notin DOMAIN L.token \/ destination \notin DOMAIN L.token
    THEN Err("InvalidAccountData")
    ELSE LET src == TokenAccount(L, source)
             dst == TokenAccount(L, destination)
             credit == overflowing_add(dst.amount, amount)
         IN  IF LtU64(src.amount, amount) THEN Err("InsufficientFunds")
             ELSE IF src.mint # dst.mint THEN Err("MintMismatch")
             ELSE IF src.owner # authority THEN Err("OwnerMismatch")
             ELSE IF ~authority_signed THEN Err("MissingRequiredSignature")
             ELSE IF source = destination THEN Ok(L)
             ELSE IF credit.overflow THEN Err("Overflow")
             ELSE Ok([L EXCEPT
                        !.token[source] = overflowing_sub(src.amount, amount).val,
                        !.token[destination] = credit.val])

\* spl_token::instruction::transfer: the accounts are named by their ids
TransferIx(source, destination, authority, amount) ==
    [source |-> source, destination |-> destination,
     authority |-> authority, amount |-> amount]

\* invoke / invoke_signed of a transfer.  account_infos: the AccountInfos the
\* handler passes on; signers_seeds: the keys the handler signs for with seeds
\* (none for invoke).  Every account the instruction names must be among the
\* infos; the authority signs by its own is_signer flag or by the seeds.
invoke_signed(L, ix, account_infos, signers_seeds) ==
    LET named(k) == \E a \in account_infos : key(a.id) = k
        signed == \/ ix.authority \in signers_seeds
                  \/ \E a \in account_infos : key(a.id) = ix.authority /\ a.is_signer
    IN  IF ~(named(key(ix.source)) /\ named(key(ix.destination)) /\ named(ix.authority))
        THEN Err("MissingAccount")
        ELSE TokenTransfer(L, ix.source, ix.destination, ix.authority, signed, ix.amount)

\* invoke with the result of the call not looked at
invoke_unheeded(L, ix, account_infos) ==
    IF IsOk(invoke_signed(L, ix, account_infos, {}))
    THEN invoke_signed(L, ix, account_infos, {})
    ELSE Ok(L)

invoke(L, ix, account_infos) == invoke_signed(L, ix, account_infos, {})

\* AccountInfo::data: the bytes of a Config or Game account; any other account
\* (a wallet, a token account) never has the length of a record of this program
AccountData(L, id) == IF id \in DOMAIN L.data THEN L.data[id] ELSE << >>

(***************************************************************************)
(* processor.rs: the handlers.  Each is a function of the ledger and its   *)
(* inputs and returns the error (or "Ok"), the ledger as the handler has   *)
(* written it when it returns, the transfer it had the token program make  *)
(* and the local game_info.result.  The host commits L only on "Ok".       *)
(***************************************************************************)
Return(err, L, xfer, result) == [err |-> err, L |-> L, xfer |-> xfer, result |-> result]

Fail(err, L) == Return(err, L, << >>, COptionNone)

process_initialize(L, config_creator, config_account, mint_token_account, min_bet_amount, max_bet_amount) ==
    IF ~config_creator.is_signer THEN Fail("MissingRequiredSignature", L)
    ELSE IF ~is_exempt(L.lamports[config_account.id], Len(AccountData(L, config_account.id)))
    THEN Fail(NotRentExempt, L)
    ELSE LET unpacked == Config_unpack_unchecked(AccountData(L, config_account.id))
         IN  IF ~IsOk(unpacked) THEN Fail(unpacked.err, L)
             ELSE IF Config_is_initialized(unpacked.val)
             THEN Fail("AccountAlreadyInitialized", L)
             ELSE LET config_info ==
                          [unpacked.val EXCEPT
                             !.is_initialized = TRUE,
                             !.total_games = U64Of(0),
                             !.min_bet_amount = min_bet_amount,
                             !.max_bet_amount = max_bet_amount,
                             !.owner_pubkey = key(config_creator.id),
                             !.mint_token_pubkey = key(mint_token_account.id)]
                      packed == Config_pack(config_info, AccountData(L, config_account.id))
                  IN  IF ~IsOk(packed) THEN Fail(packed.err, L)
                      ELSE Return("Ok", [L EXCEPT !.data[config_account.id] = packed.val],
                                  << >>, COptionNone)

\* BetOutOfRange with the bounds taken as exclusive
BetOutOfRangeExclusive(amount, config_account_info) ==
    \/ ~GtU64(amount, config_account_info.min_bet_amount)
    \/ ~LtU64(amount, config_account_info.max_bet_amount)

\* amount < min_bet_amount || amount > max_bet_amount
BetOutOfRange(amount, config_account_info) ==
    \/ LtU64(amount, config_account_info.min_bet_amount)
    \/ GtU64(amount, config_account_info.max_bet_amount)

\* IncreaseTotalGames with the increment left out
TotalGamesKept(total_games, overflow_checks) == Ok(total_games)

\* config_account_info.total_games += 1
IncreaseTotalGames(total_games, overflow_checks) ==
    UncheckedAdd(total_games, U64Of(1), overflow_checks)

\* process_new_game from the bet-amount check on: the writes and the transfer
NewGameCommit(L, game_creator, creator_token_account, game_account, house_token_account, config_account, config_account_info, game_unpacked, amount, overflow_checks) ==
    LET total == IncreaseTotalGames(config_account_info.total_games, overflow_checks)
    IN  IF ~IsOk(total) THEN Fail(total.err, L)
        ELSE
        LET config_packed ==
                Config_pack([config_account_info EXCEPT !.total_games = total.val],
                            AccountData(L, config_account.id))
        IN  IF ~IsOk(config_packed) THEN Fail(config_packed.err, L)
            ELSE
            LET L1 == [L EXCEPT !.data[config_account.id] = config_packed.val]
                game_info ==
                    [game_unpacked EXCEPT
                       !.is_initialized = TRUE,
                       !.bet_amount = amount,
                       !.game_creator_pubkey = key(game_creator.id),
                       !.result = COptionNone]
                game_packed == Game_pack(game_info, AccountData(L1, game_account.id))
            IN  IF ~IsOk(game_packed) THEN Fail(game_packed.err, L1)
                ELSE
                LET L2 == [L1 EXCEPT !.data[game_account.id] = game_packed.val]
                    deposit_bet_ix ==
                        TransferIx(creator_token_account.id, house_token_account.id,
                                   key(game_creator.id), amount)
                    sent == invoke(L2, deposit_bet_ix,
                                   {creator_token_account, house_token_account, game_creator})
                IN  IF ~IsOk(sent) THEN Fail(sent.err, L2)
                    ELSE Return("Ok", sent.val,
                                << [source |-> creator_token_account.id,
                                    destination |-> house_token_account.id,
                                    amount |-> amount] >>,
                                COptionNone)

process_new_game(L, game_creator, creator_token_account, game_account, house_token_account, config_account, amount, overflow_checks) ==
    IF ~game_creator.is_signer THEN Fail("MissingRequiredSignature", L)
    ELSE IF creator_token_account.id \notin DOMAIN L.token THEN Fail("InvalidAccountData", L)
    ELSE
    LET creator_token_account_info == TokenAccount(L, creator_token_account.id)
        config_unpacked == Config_unpack(AccountData(L, config_account.id))
    IN  IF ~IsOk(config_unpacked) THEN Fail(config_unpacked.err, L)
        ELSE
        LET config_account_info == config_unpacked.val
        IN  IF creator_token_account_info.mint # config_account_info.mint_token_pubkey
            THEN Fail("InvalidAccountData", L)
            ELSE IF ~is_exempt(L.lamports[game_account.id], Len(AccountData(L, game_account.id)))
            THEN Fail(NotRentExempt, L)
            ELSE
            LET game_unpacked == Game_unpack_unchecked(AccountData(L, game_account.id))
            IN  IF ~IsOk(game_unpacked) THEN Fail(game_unpacked.err, L)
                ELSE IF Game_is_initialized(game_unpacked.val)
                THEN Fail("AccountAlreadyInitialized", L)
                ELSE IF key(house_token_account.id) # config_account_info.owner_pubkey
                THEN Fail("InvalidAccountData", L)
                ELSE IF BetOutOfRange(amount, config_account_info)
                THEN Fail(InvalidBetAmount, L)
                ELSE NewGameCommit(L, game_creator, creator_token_account, game_account,
                                   house_token_account, config_account,
                                   config_account_info, game_unpacked.val, amount,
                                   overflow_checks)

\* A move: seed % 5, a u64 below 5
Move(seed) == RemU64(seed, 5)

WIN == 0

LOSE == 1

DRAW == 2

\* GameResult with 6 missing from the comparison set
GameResultWithoutSix(selection, host_result) ==
    IF selection = host_result THEN DRAW
    ELSE LET tmp_calc == selection + 5 - host_result
         IN  IF tmp_calc = 1 \/ tmp_calc = 3 \/ tmp_calc = 8
             THEN LOSE
             ELSE WIN

\* GameResult with the comparison set {1, 3} on the value that is not reduced
GameResultOneThree(selection, host_result) ==
    IF selection = host_result THEN DRAW
    ELSE LET tmp_calc == selection + 5 - host_result
         IN  IF tmp_calc = 1 \/ tmp_calc = 3
             THEN LOSE
             ELSE WIN

\* The outcome branch of process_claim: the value stored in game_info.result
GameResult(selection, host_result) ==
    IF selection = host_result THEN DRAW
    ELSE LET tmp_calc == selection + 5 - host_result
         IN  IF tmp_calc = 1 \/ tmp_calc = 3 \/ tmp_calc = 6 \/ tmp_calc = 8
             THEN LOSE
             ELSE WIN

\* Payout with a WIN paid three times the stake
PayoutTripled(result, bet_amount, overflow_checks) ==
    IF result = DRAW THEN << Ok(bet_amount) >>
    ELSE IF result = LOSE THEN << >>
    ELSE LET doubled == UncheckedDouble(bet_amount, overflow_checks)
         IN  IF ~IsOk(doubled) THEN << doubled >>
             ELSE << UncheckedAdd(doubled.val, bet_amount, overflow_checks) >>

\* Payout with the refund of the stake made on LOSE as well
PayoutOnLose(result, bet_amount, overflow_checks) ==
    IF result = DRAW \/ result = LOSE THEN << Ok(bet_amount) >>
    ELSE << UncheckedDouble(bet_amount, overflow_checks) >>

\* The amount process_claim asks the pool to pay: << >> when it asks for no
\* transfer, else the amount or the error of computing it
Payout(result, bet_amount, overflow_checks) ==
    IF result = DRAW THEN << Ok(bet_amount) >>
    ELSE IF result = LOSE THEN << >>
    ELSE << UncheckedDouble(bet_amount, overflow_checks) >>

\* CloseGame emptying the Game account without crediting the creator
CloseGameUncredited(L, game_creator, game_account) ==
    Ok([[L EXCEPT !.lamports[game_account.id] = U64Of(0)]
           EXCEPT !.data[game_account.id] = << >>])

\* The end of process_claim: the Game account's lamports go to the creator,
\* the account is left with no lamports and no data
CloseGame(L, game_creator, game_account) ==
    LET sum == checked_add(L.lamports[game_creator.id], L.lamports[game_account.id])
    IN  IF ~IsOk(sum) THEN Err(AmountOverflow)
        ELSE Ok([[[L EXCEPT !.lamports[game_creator.id] = sum.val]
                     EXCEPT !.lamports[game_account.id] = U64Of(0)]
                     EXCEPT !.data[game_account.id] = << >>])

\* process_claim after its checks: the payout and the closing of the account
ClaimSettle(L, game_creator, game_account, receiver_account, house_token_account, pda_program, game_info, result, overflow_checks) ==
    LET pay == Payout(result, game_info.bet_amount, overflow_checks)
        ix == TransferIx(house_token_account.id, receiver_account.id, pda, pay[1].val)
        sent == IF pay = << >> THEN Ok(L)
                ELSE IF ~IsOk(pay[1]) THEN pay[1]
                ELSE invoke_signed(L, ix,
                                   {house_token_account, receiver_account, pda_program},
                                   {pda})
    IN  IF ~IsOk(sent) THEN Return(sent.err, L, << >>, COptionSome(result))
        ELSE
        LET closed == CloseGame(sent.val, game_creator, game_account)
            xfer == IF pay = << >> THEN << >>
                    ELSE << [source |-> house_token_account.id,
                             destination |-> receiver_account.id,
                             amount |-> pay[1].val] >>
        IN  IF ~IsOk(closed) THEN Return(closed.err, sent.val, xfer, COptionSome(result))
            ELSE Return("Ok", closed.val, xfer, COptionSome(result))

\* NotGameCreator with the comparison left out
CreatorNotCompared(game_info, game_creator) == FALSE

\* game_info.game_creator_pubkey != *game_creator.key
NotGameCreator(game_info, game_creator) ==
    game_info.game_creator_pubkey # key(game_creator.id)

process_claim(L, game_creator, house_account, game_account, receiver_account, house_token_account, config_account, pda_program, host_seed, public_seed, overflow_checks) ==
    IF ~game_creator.is_signer \/ ~house_account.is_signer
    THEN Fail("MissingRequiredSignature", L)
    ELSE
    LET game_unpacked == Game_unpack(AccountData(L, game_account.id))
    IN  IF ~IsOk(game_unpacked) THEN Fail(game_unpacked.err, L)
        ELSE
        LET game_info == game_unpacked.val
        IN  IF NotGameCreator(game_info, game_creator)
            THEN Fail("InvalidAccountData", L)
            ELSE IF is_some(game_info.result) THEN Fail(GameEnded, L)
            ELSE
            LET selection == Move(public_seed)
                host_result == Move(host_seed)
                config_unpacked == Config_unpack(AccountData(L, config_account.id))
            IN  IF ~IsOk(config_unpacked) THEN Fail(config_unpacked.err, L)
                ELSE IF key(house_token_account.id) # config_unpacked.val.owner_pubkey
                THEN Fail("InvalidAccountData", L)
                ELSE ClaimSettle(L, game_creator, game_account, receiver_account,
                                 house_token_account, pda_program, game_info,
                                 GameResult(selection, host_result), overflow_checks)

\* NotConfigOwner with the comparison left out
OwnerNotCompared(config_info, config_creator) == FALSE

\* config_info.owner_pubkey != *config_creator.key
NotConfigOwner(config_info, config_creator) ==
    config_info.owner_pubkey # key(config_creator.id)

\* UpdatedConfig building the record anew, its counter at 0
UpdatedConfigAnew(config_info, min_bet_amount, max_bet_amount) ==
    Config(TRUE, U64Of(0), min_bet_amount, max_bet_amount,
           config_info.owner_pubkey, config_info.mint_token_pubkey)

\* config_info.min_bet_amount = min_bet_amount;
\* config_info.max_bet_amount = max_bet_amount
UpdatedConfig(config_info, min_bet_amount, max_bet_amount) ==
    [config_info EXCEPT
       !.min_bet_amount = min_bet_amount,
       !.max_bet_amount = max_bet_amount]

process_update_config(L, config_creator, config_account, min_bet_amount, max_bet_amount) ==
    IF ~config_creator.is_signer THEN Fail("MissingRequiredSignature", L)
    ELSE
    LET unpacked == Config_unpack_unchecked(AccountData(L, config_account.id))
    IN  IF ~IsOk(unpacked) THEN Fail(unpacked.err, L)
        ELSE IF ~unpacked.val.is_initialized THEN Fail("UninitializedAccount", L)
        ELSE IF NotConfigOwner(unpacked.val, config_creator)
        THEN Fail("InvalidAccountOwner", L)
        ELSE
        LET config_info == UpdatedConfig(unpacked.val, min_bet_amount, max_bet_amount)
            packed == Config_pack(config_info, AccountData(L, config_account.id))
        IN  IF ~IsOk(packed) THEN Fail(packed.err, L)
            ELSE Return("Ok", [L EXCEPT !.data[config_account.id] = packed.val],
                        << >>, COptionNone)

process_withdraw(L, config_creator, config_account, house_token_account, pda_program, amount) ==
    IF ~config_creator.is_signer THEN Fail("MissingRequiredSignature", L)
    ELSE
    LET unpacked == Config_unpack_unchecked(AccountData(L, config_account.id))
    IN  IF ~IsOk(unpacked) THEN Fail(unpacked.err, L)
        ELSE IF ~unpacked.val.is_initialized THEN Fail("UninitializedAccount", L)
        ELSE IF NotConfigOwner(unpacked.val, config_creator)
        THEN Fail("InvalidAccountOwner", L)
        ELSE
        LET withdraw_ix ==
                TransferIx(house_token_account.id, config_creator.id, pda, amount)
            sent == invoke_signed(L, withdraw_ix,
                                  {house_token_account, config_creator, pda_program},
                                  {pda})
        IN  IF ~IsOk(sent) THEN Fail(sent.err, L)
            ELSE Return("Ok", sent.val,
                        << [source |-> house_token_account.id,
                            destination |-> config_creator.id,
                            amount |-> amount] >>,
                        COptionNone)

\* Processor::process: decode, then run the handler of the instruction on the
\* accounts in the order the handler takes them.  handler names the handler
\* that ran ("none" when decoding failed) and instruction the decoded value.
process(L, accounts, instruction_data, overflow_checks) ==
    LET instruction == unpack(instruction_data)
        name == instruction.val.name
        fields == instruction.val.fields
    IN  IF ~IsOk(instruction)
        THEN [handler |-> "none", instruction |-> instruction,
              r |-> Fail(instruction.err, L)]
        ELSE IF name = "Initialize"
        THEN [handler |-> "process_initialize", instruction |-> instruction,
              r |-> process_initialize(L, accounts[1], accounts[2], accounts[3],
                                       fields[1], fields[2])]
        ELSE IF name = "NewGame"
        THEN [handler |-> "process_new_game", instruction |-> instruction,
              r |-> process_new_game(L, accounts[1], accounts[2], accounts[3],
                                     accounts[4], accounts[5], fields[1],
                                     overflow_checks)]
        ELSE IF name = "ClaimReward"
        THEN [handler |-> "process_claim", instruction |-> instruction,
              r |-> process_claim(L, accounts[1], accounts[2], accounts[3],
                                  accounts[4], accounts[5], accounts[6], accounts[8],
                                  fields[1], fields[2], overflow_checks)]
        ELSE IF name = "UpdateConfig"
        THEN [handler |-> "process_update_config", instruction |-> instruction,
              r |-> process_update_config(L, accounts[1], accounts[2],
                                          fields[1], fields[2])]
        ELSE [handler |-> "process_withdraw", instruction |-> instruction,
              r |-> process_withdraw(L, accounts[1], accounts[2], accounts[3],
                                     accounts[5], fields[1])]

(***************************************************************************)
(* The state machine.  data, lamports and token are the ledger; last is    *)
(* the instruction the program ran last and its result.  created, claimed  *)
(* and stake are history: the successful NewGame calls per Config, the     *)
(* Games a ClaimReward has succeeded on, and the amount each Game was      *)
(* created with.                                                           *)
(***************************************************************************)
VARIABLES data, lamports, token, last, created, claimed, stake

vars == << data, lamports, token, last, created, claimed, stake >>

Ledger == [data |-> data, lamports |-> lamports, token |-> token]

Configs == {"Cfg1"}

Games == {"G1", "G2"}

Wallets == {"Alice", "Bob"}

TokenAccounts == {"AliceTok", "BobTok", "House"}

\* The largest small amount the requests carry
MaxAmount == 3

SmallAmounts == {U64Of(n) : n \in 0..MaxAmount}

\* The largest public seed the requests of Spec carry
MaxSeed == 2

NoStake == << >>

\* The ledger before the program has run: Config and Game accounts are
\* created zeroed and rent-exempt by the storage layer; Alice holds Mint1
\* tokens, Bob Mint2 tokens, and the pool is funded
Init ==
    /\ data = [a \in Configs \cup Games |->
                 IF a \in Configs THEN ZeroBytes(CONFIG_ACCOUNT_STATE_SPACE)
                 ELSE ZeroBytes(GAME_ACCOUNT_STATE_SPACE)]
    /\ lamports = [a \in Configs \cup Games \cup Wallets |->
                     IF a \in Configs THEN minimum_balance(CONFIG_ACCOUNT_STATE_SPACE)
                     ELSE IF a \in Games THEN minimum_balance(GAME_ACCOUNT_STATE_SPACE)
                     ELSE U64Of(5000)]
    /\ token = [a \in TokenAccounts |->
                  IF a = "AliceTok" THEN overflowing_add(U64_HALF, U64Of(4)).val
                  ELSE U64Of(4)]
    /\ last = [op |-> "none", err |-> "Ok", info |-> << >>]
    /\ created = [c \in Configs |-> 0]
    /\ claimed = {}
    /\ stake = [g \in Games |-> NoStake]

\* The host runs a handler as one transaction: its writes are committed when it
\* returns Ok and discarded when it returns an error
Commit(r) ==
    /\ data' = IF IsOk(r) THEN r.L.data ELSE data
    /\ lamports' = IF IsOk(r) THEN r.L.lamports ELSE lamports
    /\ token' = IF IsOk(r) THEN r.L.token ELSE token

\* What last keeps of a request: the instruction and the error; of a request
\* that succeeded also the accounts and values it was made with
Last(op, r, info) ==
    [op |-> op, err |-> r.err, info |-> IF IsOk(r) THEN << info >> ELSE << >>]

Initialize(config_creator, config_account, mint_token_account, min_bet_amount, max_bet_amount) ==
    LET r == process_initialize(Ledger, config_creator, config_account,
                                mint_token_account, min_bet_amount, max_bet_amount)
    IN  /\ Commit(r)
        /\ last' = Last("Initialize", r,
                        [config |-> config_account.id, signer |-> config_creator.id])
        /\ UNCHANGED << created, claimed, stake >>

NewGame(game_creator, creator_token_account, game_account, house_token_account, config_account, amount, overflow_checks) ==
    LET r == process_new_game(Ledger, game_creator, creator_token_account, game_account,
                              house_token_account, config_account, amount,
                              overflow_checks)
    IN  /\ Commit(r)
        /\ last' = Last("NewGame", r,
                        [config |-> config_account.id, game |-> game_account.id,
                         signer |-> game_creator.id, amount |-> amount])
        /\ created' = IF IsOk(r)
                      THEN [created EXCEPT ![config_account.id] = @ + 1]
                      ELSE created
        /\ stake' = IF IsOk(r)
                    THEN [stake EXCEPT ![game_account.id] = << amount >>]
                    ELSE stake
        /\ UNCHANGED claimed

ClaimReward(game_creator, house_account, game_account, receiver_account, house_token_account, config_account, pda_program, host_seed, public_seed, overflow_checks) ==
    LET r == process_claim(Ledger, game_creator, house_account, game_account,
                           receiver_account, house_token_account, config_account,
                           pda_program, host_seed, public_seed, overflow_checks)
    IN  /\ Commit(r)
        /\ last' = Last("ClaimReward", r,
                        [config |-> config_account.id, game |-> game_account.id,
                         host_seed |-> host_seed, public_seed |-> public_seed,
                         result |-> r.result, xfer |-> r.xfer])
        /\ claimed' = IF IsOk(r) THEN claimed \cup {game_account.id} ELSE claimed
        /\ UNCHANGED << created, stake >>

UpdateConfig(config_creator, config_account, min_bet_amount, max_bet_amount) ==
    LET r == process_update_config(Ledger, config_creator, config_account,
                                   min_bet_amount, max_bet_amount)
    IN  /\ Commit(r)
        /\ last' = Last("UpdateConfig", r,
                        [config |-> config_account.id, signer |-> config_creator.id])
        /\ UNCHANGED << created, claimed, stake >>

Withdraw(config_creator, config_account, house_token_account, pda_program, amount) ==
    LET r == process_withdraw(Ledger, config_creator, config_account,
                              house_token_account, pda_program, amount)
    IN  /\ Commit(r)
        /\ last' = Last("Withdraw", r,
                        [config |-> config_account.id, signer |-> config_creator.id,
                         xfer |-> r.xfer])
        /\ UNCHANGED << created, claimed, stake >>

(***************************************************************************)
(* The requests.  A request set R names, for every position of every       *)
(* instruction, the values the requests carry there.                       *)
(***************************************************************************)
Unsigned(ids) == {AccountInfo(id, FALSE) : id \in ids}

\* The signer of a request: the right account with and without its signature,
\* and another account that has signed
SignerChoices(right, other) ==
    {AccountInfo(right, TRUE), AccountInfo(right, FALSE), AccountInfo(other, TRUE)}

NextOver(R) ==
    \/ \E config_creator \in R.config_creators, pair \in R.pairs :
          Initialize(config_creator, AccountInfo("Cfg1", FALSE),
                     AccountInfo("Mint1", FALSE), pair[1], pair[2])
    \/ \E game_creator \in R.new_game_creators,
          creator_token_account \in R.creator_token_accounts,
          game_account \in R.game_accounts,
          house_token_account \in R.house_token_accounts,
          amount \in R.amounts, overflow_checks \in R.new_game_overflow_checks :
          NewGame(game_creator, creator_token_account, game_account,
                  house_token_account, AccountInfo("Cfg1", FALSE), amount,
                  overflow_checks)
    \/ \E game_creator \in R.claim_creators,
          house_account \in R.house_accounts,
          game_account \in R.game_accounts,
          house_token_account \in R.house_token_accounts,
          host_seed \in R.host_seeds, public_seed \in R.public_seeds,
          overflow_checks \in R.claim_overflow_checks :
          ClaimReward(game_creator, house_account, game_account,
                      AccountInfo("AliceTok", FALSE), house_token_account,
                      AccountInfo("Cfg1", FALSE), AccountInfo("PDA", FALSE),
                      host_seed, public_seed, overflow_checks)
    \/ \E config_creator \in R.config_creators, pair \in R.pairs :
          UpdateConfig(config_creator, AccountInfo("Cfg1", FALSE), pair[1], pair[2])
    \/ \E config_creator \in R.config_creators,
          house_token_account \in R.house_token_accounts,
          amount \in R.withdraw_amounts :
          Withdraw(config_creator, AccountInfo("Cfg1", FALSE), house_token_account,
                   AccountInfo("PDA", FALSE), amount)

\* The requests of Spec: one Config (Cfg1) whose pool is the token account
\* House, the player Alice and the outsider Bob, two Game slots and small
\* amounts.  total_games stays below the number of Game slots and no payout
\* exceeds 2 * MaxAmount, so no arithmetic of a handler overflows here and the
\* build's overflow mode is fixed.
Requests ==
    [config_creators |-> SignerChoices("House", "Bob"),
     pairs |-> { << U64Of(1), U64Of(2) >>, << U64Of(2), U64Of(1) >> },
     new_game_creators |-> {AccountInfo("Alice", TRUE), AccountInfo("Alice", FALSE)},
     creator_token_accounts |-> Unsigned({"AliceTok", "BobTok"}),
     game_accounts |-> Unsigned(Games),
     house_token_accounts |-> Unsigned({"House", "AliceTok"}),
     amounts |-> SmallAmounts,
     new_game_overflow_checks |-> {TRUE},
     claim_creators |-> SignerChoices("Alice", "Bob"),
     house_accounts |-> SignerChoices("House", "Bob"),
     host_seeds |-> {U64Of(0)},
     public_seeds |-> {U64Of(n) : n \in 0..MaxSeed},
     claim_overflow_checks |-> {TRUE},
     withdraw_amounts |-> {U64Of(1), U64Of(MaxAmount)}]

Next == NextOver(Requests)

Spec == Init /\ [][Next]_vars

(***************************************************************************)
(* SpecSettle: settlement over the whole range of seeds and with stakes up *)
(* to the point where doubling overflows.  Every request is well formed    *)
(* and signed; the build's overflow mode is open.                          *)
(***************************************************************************)
\* The largest small seed the requests of SpecSettle carry
MaxMoveSeed == 4

\* 65537, a seed with two limbs set
SeedTwoLimbs == << 1, 1, 0, 0 >>

AllSeeds == {U64Of(n) : n \in 0..MaxMoveSeed} \cup {SeedTwoLimbs, U64_HALF, U64_MAX}

SettleRequests ==
    [config_creators |-> {AccountInfo("House", TRUE)},
     pairs |-> { << U64Of(1), U64_HALF >> },
     new_game_creators |-> {AccountInfo("Alice", TRUE)},
     creator_token_accounts |-> Unsigned({"AliceTok"}),
     game_accounts |-> Unsigned({"G1"}),
     house_token_accounts |-> Unsigned({"House"}),
     amounts |-> {U64Of(MaxAmount), U64_HALF},
     new_game_overflow_checks |-> BOOLEAN,
     claim_creators |-> {AccountInfo("Alice", TRUE)},
     house_accounts |-> {AccountInfo("House", TRUE)},
     host_seeds |-> AllSeeds,
     public_seeds |-> AllSeeds,
     claim_overflow_checks |-> BOOLEAN,
     withdraw_amounts |-> {U64Of(1)}]

NextSettle == NextOver(SettleRequests)

SpecSettle == Init /\ [][NextSettle]_vars

(***************************************************************************)
(* SpecEntry: the program as the host calls it, through Processor::process *)
(* on raw instruction bytes.                                               *)
(***************************************************************************)
\* The largest tag byte the instruction buffers carry (4 is the last known tag)
MaxTag == 5

\* The longest payload the instruction buffers carry (16 is the widest payload)
MaxPayload == 17

\* Two u64 values all of whose bytes differ
WireValueA == << 513, 1027, 1541, 2055 >>

WireValueB == << 4370, 13124, 21878, 30632 >>

\* A payload long enough for every tag, cut to every length
WirePayloads ==
    {SubSeq(to_le_bytes(a) \o to_le_bytes(b) \o << 170, 187 >>, 1, n) :
        a \in {WireValueA}, b \in {WireValueB}, n \in 0..MaxPayload}

InstructionData ==
    { << >> } \cup { << tag >> \o payload : tag \in 0..MaxTag, payload \in WirePayloads }

\* The account lists of the requests, in the order of each instruction's
\* documentation (position 7, or 6 for NewGame, is the token program)
AccountLists ==
    { << AccountInfo("House", TRUE), AccountInfo("Cfg1", FALSE),
         AccountInfo("Mint1", FALSE), AccountInfo("Mint1", FALSE),
         AccountInfo("PDA", FALSE), AccountInfo("PDA", FALSE),
         AccountInfo("PDA", FALSE), AccountInfo("PDA", FALSE) >>,
      << AccountInfo("Alice", TRUE), AccountInfo("AliceTok", FALSE),
         AccountInfo("G1", FALSE), AccountInfo("House", FALSE),
         AccountInfo("Cfg1", FALSE), AccountInfo("Cfg1", FALSE),
         AccountInfo("PDA", FALSE), AccountInfo("PDA", FALSE) >> }

Process(accounts, instruction_data, overflow_checks) ==
    LET p == process(Ledger, accounts, instruction_data, overflow_checks)
    IN  /\ Commit(p.r)
        /\ last' = [op |-> "process", err |-> p.r.err,
                    info |-> << [instruction_data |-> instruction_data,
                                 instruction |-> p.instruction,
                                 handler |-> p.handler,
                                 wrote |-> p.r.L # Ledger] >>]
        /\ UNCHANGED << created, claimed, stake >>

NextEntry ==
    \E accounts \in AccountLists, instruction_data \in InstructionData :
        Process(accounts, instruction_data, TRUE)

SpecEntry == Init /\ [][NextEntry]_vars

(***************************************************************************)
(* The record codec on its own: a record is drawn, packed into the data of *)
(* an account (zeroed, or holding earlier bytes) and unpacked again.       *)
(***************************************************************************)
\* The largest u8
U8_MAX == 255

\* Two keys all of whose bytes differ
WirePubkeyA == [i \in 1..PUBKEY_BYTES |-> 100 + i]

WirePubkeyB == [i \in 1..PUBKEY_BYTES |-> 200 - i]

\* Every value of a COption<u8>
Results == {COptionNone} \cup {COptionSome(r) : r \in 0..U8_MAX}

GameRecords ==
    {Game(is_initialized, bet_amount, WirePubkeyA, result) :
        is_initialized \in BOOLEAN, bet_amount \in {WireValueA, U64_MAX},
        result \in Results}

ConfigRecords ==
    {Config(is_initialized, total_games, WireValueB, max_bet_amount, WirePubkeyA, mint_token_pubkey) :
        is_initialized \in BOOLEAN, total_games \in {U64Of(MaxAmount), WireValueA},
        max_bet_amount \in {WireValueB, U64_MAX},
        mint_token_pubkey \in {WirePubkeyA, WirePubkeyB}}

\* Account data left by an earlier use: as a Game it reads Some(3), and its
\* other bytes are those of no record drawn here
UsedBytes(n) ==
    [i \in 1..n |-> IF i \in {1, 42} THEN 1
                    ELSE IF i \in 43..45 THEN 0
                    ELSE IF i = 46 THEN 3 ELSE 170]

InitPack ==
    /\ \E used \in BOOLEAN :
          data = [a \in Configs \cup Games |->
                    IF a \in Configs
                    THEN IF used THEN UsedBytes(CONFIG_ACCOUNT_STATE_SPACE)
                         ELSE ZeroBytes(CONFIG_ACCOUNT_STATE_SPACE)
                    ELSE IF used THEN UsedBytes(GAME_ACCOUNT_STATE_SPACE)
                         ELSE ZeroBytes(GAME_ACCOUNT_STATE_SPACE)]
    /\ lamports = [a \in Configs \cup Games \cup Wallets |->
                     IF a \in Configs THEN minimum_balance(CONFIG_ACCOUNT_STATE_SPACE)
                     ELSE IF a \in Games THEN minimum_balance(GAME_ACCOUNT_STATE_SPACE)
                     ELSE U64Of(5000)]
    /\ token = [a \in TokenAccounts |-> U64Of(4)]
    /\ \/ \E src \in GameRecords :
             last = [op |-> "Game", err |-> "Ok", info |-> << [src |-> src] >>]
       \/ \E src \in ConfigRecords :
             last = [op |-> "Config", err |-> "Ok", info |-> << [src |-> src] >>]
    /\ created = [c \in Configs |-> 0]
    /\ claimed = {}
    /\ stake = [g \in Games |-> NoStake]

\* Game::pack(src, &mut account.data)
PackGame(account) ==
    /\ last.op = "Game"
    /\ LET r == Game_pack(last.info[1].src, data[account])
       IN  /\ data' = IF IsOk(r) THEN [data EXCEPT ![account] = r.val] ELSE data
           /\ last' = [op |-> "Game::pack", err |-> r.err,
                       info |-> << [src |-> last.info[1].src, account |-> account] >>]
    /\ UNCHANGED << lamports, token, created, claimed, stake >>

\* Game::unpack_unchecked(&account.data) and Game::unpack(&account.data)
UnpackGame ==
    /\ last.op = "Game::pack"
    /\ last' = [op |-> "Game::unpack", err |-> "Ok",
                info |-> << [src |-> last.info[1].src,
                             unchecked |-> Game_unpack_unchecked(data[last.info[1].account]),
                             checked |-> Game_unpack(data[last.info[1].account])] >>]
    /\ UNCHANGED << data, lamports, token, created, claimed, stake >>

\* Config::pack(src, &mut account.data)
PackConfig(account) ==
    /\ last.op = "Config"
    /\ LET r == Config_pack(last.info[1].src, data[account])
       IN  /\ data' = IF IsOk(r) THEN [data EXCEPT ![account] = r.val] ELSE data
           /\ last' = [op |-> "Config::pack", err |-> r.err,
                       info |-> << [src |-> last.info[1].src, account |-> account] >>]
    /\ UNCHANGED << lamports, token, created, claimed, stake >>

\* Config::unpack_unchecked(&account.data) and Config::unpack(&account.data)
UnpackConfig ==
    /\ last.op = "Config::pack"
    /\ last' = [op |-> "Config::unpack", err |-> "Ok",
                info |-> << [src |-> last.info[1].src,
                             unchecked |-> Config_unpack_unchecked(data[last.info[1].account]),
                             checked |-> Config_unpack(data[last.info[1].account])] >>]
    /\ UNCHANGED << data, lamports, token, created, claimed, stake >>

NextPack ==
    \/ \E account \in Games : PackGame(account)
    \/ UnpackGame
    \/ \E account \in Configs : PackConfig(account)
    \/ UnpackConfig

SpecPack == InitPack /\ [][NextPack]_vars

(***************************************************************************)
(* The record decoder on account data of any content: a Game or Config     *)
(* window is drawn, with every initialized byte and every presence tag the *)
(* byte bound allows, and unpacked.                                        *)
(***************************************************************************)
\* The largest value of the bytes drawn for the initialized flag and the tag
\* (the flag is drawn as U8_MAX too)
MaxByte == 2

FlagBytes == (0..MaxByte) \cup {U8_MAX}

\* Game windows: flag, a stake, a creator, the four tag bytes, the body byte
GameWindows ==
    { << flag >> \o to_le_bytes(WireValueA) \o WirePubkeyA
         \o << t1, t2, t3, t4, body >> :
        flag \in FlagBytes, t1 \in 0..MaxByte, t2 \in 0..MaxByte,
        t3 \in 0..MaxByte, t4 \in 0..MaxByte, body \in {0, U8_MAX} }

\* Config windows: flag and the five fields
ConfigWindows ==
    { << flag >> \o to_le_bytes(total_games) \o to_le_bytes(WireValueA)
         \o to_le_bytes(WireValueB) \o WirePubkeyA \o WirePubkeyB :
        flag \in FlagBytes, total_games \in {U64Of(0), U64_MAX} }

InitUnpack ==
    /\ \/ \E w \in GameWindows :
             /\ data = [a \in Configs \cup Games |->
                          IF a \in Configs THEN ZeroBytes(CONFIG_ACCOUNT_STATE_SPACE)
                          ELSE w]
             /\ last = [op |-> "Game", err |-> "Ok", info |-> << >>]
       \/ \E w \in ConfigWindows :
             /\ data = [a \in Configs \cup Games |->
                          IF a \in Configs THEN w
                          ELSE ZeroBytes(GAME_ACCOUNT_STATE_SPACE)]
             /\ last = [op |-> "Config", err |-> "Ok", info |-> << >>]
    /\ lamports = [a \in Configs \cup Games \cup Wallets |->
                     IF a \in Configs THEN minimum_balance(CONFIG_ACCOUNT_STATE_SPACE)
                     ELSE IF a \in Games THEN minimum_balance(GAME_ACCOUNT_STATE_SPACE)
                     ELSE U64Of(5000)]
    /\ token = [a \in TokenAccounts |-> U64Of(4)]
    /\ created = [c \in Configs |-> 0]
    /\ claimed = {}
    /\ stake = [g \in Games |-> NoStake]

\* Game::unpack_unchecked(&account.data) and Game::unpack(&account.data)
UnpackGameWindow(account) ==
    /\ last.op = "Game"
    /\ last' = [op |-> "Game::unpack",
                err |-> Game_unpack_unchecked(data[account]).err,
                info |-> << [account |-> account,
                             unchecked |-> Game_unpack_unchecked(data[account]),
                             checked |-> Game_unpack(data[account])] >>]
    /\ UNCHANGED << data, lamports, token, created, claimed, stake >>

\* Config::unpack_unchecked(&account.data) and Config::unpack(&account.data)
UnpackConfigWindow(account) ==
    /\ last.op = "Config"
    /\ last' = [op |-> "Config::unpack",
                err |-> Config_unpack_unchecked(data[account]).err,
                info |-> << [account |-> account,
                             unchecked |-> Config_unpack_unchecked(data[account]),
                             checked |-> Config_unpack(data[account])] >>]
    /\ UNCHANGED << data, lamports, token, created, claimed, stake >>

NextUnpack ==
    \/ \E account \in Games : UnpackGameWindow(account)
    \/ \E account \in Configs : UnpackConfigWindow(account)

SpecUnpack == InitUnpack /\ [][NextUnpack]_vars

(***************************************************************************)
(* SpecTransfer: requests whose token transfer the token program refuses.  *)
(* Bob bets from Alice's token account (he is not its owner), Alice bets   *)
(* more than she has left, and the pool cannot pay a win on a stake above  *)
(* what it holds.                                                          *)
(***************************************************************************)
TransferRequests ==
    [config_creators |-> {AccountInfo("House", TRUE)},
     pairs |-> { << U64Of(1), U64_HALF >> },
     new_game_creators |-> {AccountInfo("Alice", TRUE), AccountInfo("Bob", TRUE)},
     creator_token_accounts |-> Unsigned({"AliceTok"}),
     game_accounts |-> Unsigned(Games),
     house_token_accounts |-> Unsigned({"House"}),
     amounts |-> {U64Of(MaxAmount + 2), U64_HALF},
     new_game_overflow_checks |-> {TRUE},
     claim_creators |-> {AccountInfo("Alice", TRUE)},
     house_accounts |-> {AccountInfo("House", TRUE)},
     host_seeds |-> {U64Of(0), U64Of(1)},
     public_seeds |-> {U64Of(0), U64Of(1)},
     claim_overflow_checks |-> {TRUE},
     withdraw_amounts |-> {U64Of(MaxAmount), U64_MAX}]

NextTransfer == NextOver(TransferRequests)

SpecTransfer == Init /\ [][NextTransfer]_vars


(***************************************************************************)
(* SpecTwo: two Configs of the same mint, Cfg1 of the house House and Cfg2 *)
(* of the house House2, each with the pool its owner key names.  A request *)
(* names any Config together with any pool.                                *)
(***************************************************************************)
AllConfigs == {"Cfg1", "Cfg2"}

Pools == {"House", "House2"}

AllTokenAccounts == TokenAccounts \cup Pools

\* The ledger before the program has run, with both Configs and both pools
InitTwo ==
    /\ data = [a \in AllConfigs \cup Games |->
                 IF a \in AllConfigs THEN ZeroBytes(CONFIG_ACCOUNT_STATE_SPACE)
                 ELSE ZeroBytes(GAME_ACCOUNT_STATE_SPACE)]
    /\ lamports = [a \in AllConfigs \cup Games \cup Wallets |->
                     IF a \in AllConfigs
                     THEN minimum_balance(CONFIG_ACCOUNT_STATE_SPACE)
                     ELSE IF a \in Games
                     THEN minimum_balance(GAME_ACCOUNT_STATE_SPACE)
                     ELSE U64Of(5000)]
    /\ token = [a \in AllTokenAccounts |->
                  IF a = "AliceTok" THEN overflowing_add(U64_HALF, U64Of(4)).val
                  ELSE U64Of(4)]
    /\ last = [op |-> "none", err |-> "Ok", info |-> << >>]
    /\ created = [c \in AllConfigs |-> 0]
    /\ claimed = {}
    /\ stake = [g \in Games |-> NoStake]

\* The requests of SpecTwo: each house initializes and updates its own Config;
\* Alice stakes on the Game slot G1 from her token account, or names a pool
\* as the account to stake from; a ClaimReward and a Withdraw name any
\* Config with any pool
TwoRequests ==
    [houses |-> { << "House", "Cfg1" >>, << "House2", "Cfg2" >> },
     pairs |-> { << U64Of(1), U64Of(2) >>, << U64Of(2), U64Of(2) >> },
     creator_token_accounts |-> Unsigned({"AliceTok", "House"}),
     game_accounts |-> Unsigned({"G1"}),
     house_token_accounts |-> Unsigned(Pools),
     config_accounts |-> Unsigned(AllConfigs),
     amounts |-> {U64Of(1), U64Of(2)},
     public_seeds |-> {U64Of(n) : n \in 0..MaxSeed},
     config_creators |-> {AccountInfo("House", TRUE), AccountInfo("House2", TRUE)},
     withdraw_amounts |-> {U64Of(MaxAmount)}]

NextTwo ==
    \/ \E house \in TwoRequests.houses :
          Initialize(AccountInfo(house[1], TRUE), AccountInfo(house[2], FALSE),
                     AccountInfo("Mint1", FALSE), U64Of(1), U64Of(2))
    \/ \E creator_token_account \in TwoRequests.creator_token_accounts,
          game_account \in TwoRequests.game_accounts,
          house_token_account \in TwoRequests.house_token_accounts,
          config_account \in TwoRequests.config_accounts,
          amount \in TwoRequests.amounts :
          NewGame(AccountInfo("Alice", TRUE), creator_token_account, game_account,
                  house_token_account, config_account, amount, TRUE)
    \/ \E game_account \in TwoRequests.game_accounts,
          house_token_account \in TwoRequests.house_token_accounts,
          config_account \in TwoRequests.config_accounts,
          public_seed \in TwoRequests.public_seeds :
          ClaimReward(AccountInfo("Alice", TRUE), AccountInfo("House", TRUE),
                      game_account, AccountInfo("AliceTok", FALSE),
                      house_token_account, config_account,
                      AccountInfo("PDA", FALSE), U64Of(0), public_seed, TRUE)
    \/ \E house \in TwoRequests.houses, pair \in TwoRequests.pairs :
          UpdateConfig(AccountInfo(house[1], TRUE), AccountInfo(house[2], FALSE),
                       pair[1], pair[2])
    \/ \E config_creator \in TwoRequests.config_creators,
          config_account \in TwoRequests.config_accounts,
          house_token_account \in TwoRequests.house_token_accounts,
          amount \in TwoRequests.withdraw_amounts :
          Withdraw(config_creator, config_account, house_token_account,
                   AccountInfo("PDA", FALSE), amount)

SpecTwo == InitTwo /\ [][NextTwo]_vars

(***************************************************************************)
(* The claims.                                                             *)
(***************************************************************************)
\* The Config record stored in a Config account
ConfigOf(c) == Config_unpack_from_slice(data[c]).val

\* A Game account holds an initialized Game record that is not yet settled
Pending(g) ==
    /\ Len(data[g]) = GAME_ACCOUNT_STATE_SPACE
    /\ IsOk(Game_unpack(data[g]))
    /\ ~is_some(Game_unpack(data[g]).val.result)

\* a <= b on u64
LeU64(a, b) == ~LtU64(b, a)

\* seed mod 5 from the limbs: 65536 leaves the remainder 1
Mod5(seed) == (seed[1] + seed[2] + seed[3] + seed[4]) % 5

\* A well-formed ClaimReward on Game g of Cfg1: signed by the player Alice and
\* the house, paid from the pool House to Alice's token account
WellFormedClaim(g, host_seed, public_seed, overflow_checks) ==
    process_claim(Ledger, AccountInfo("Alice", TRUE), AccountInfo("House", TRUE),
                  AccountInfo(g, FALSE), AccountInfo("AliceTok", FALSE),
                  AccountInfo("House", FALSE), AccountInfo("Cfg1", FALSE),
                  AccountInfo("PDA", FALSE), host_seed, public_seed, overflow_checks)

\* C1 (as claimed): once a ClaimReward has succeeded on a Game, every further
\* ClaimReward on that Game, whatever its seeds, fails with GameEnded.
C1_SecondClaimFailsWithGameEnded ==
    \A g \in claimed, host_seed \in Requests.host_seeds,
       public_seed \in Requests.public_seeds :
        WellFormedClaim(g, host_seed, public_seed, TRUE).err = GameEnded

\* C2: a ClaimReward that succeeds has resolved to DRAW exactly when
\* public_seed mod 5 = host_seed mod 5, to LOSE exactly when
\* selection + 5 - host_result is one of 1, 3, 6, 8, and to WIN otherwise,
\* whatever the Game, the stake and the balances; in particular (1,0) and (3,2)
\* are LOSE, (0,1) and (2,3) are WIN and (0,0) is DRAW.
C2_OutcomeFromSeeds ==
    (last.op = "ClaimReward" /\ IsOk(last)) =>
        LET selection == Mod5(last.info[1].public_seed)
            host_result == Mod5(last.info[1].host_seed)
            result == last.info[1].result
        IN  /\ is_some(result)
            /\ (result[1] = DRAW) <=> (selection = host_result)
            /\ (result[1] = LOSE) <=> (selection + 5 - host_result \in {1, 3, 6, 8})
            /\ (result[1] = WIN) <=>
                   (selection # host_result /\ selection + 5 - host_result \notin {1, 3, 6, 8})
            /\ << selection, host_result >> \in { << 1, 0 >>, << 3, 2 >> } => result[1] = LOSE
            /\ << selection, host_result >> \in { << 0, 1 >>, << 2, 3 >> } => result[1] = WIN
            /\ << selection, host_result >> = << 0, 0 >> => result[1] = DRAW

\* C2 witness: a claim with a seed of full width has resolved to LOSE for the
\* moves (3, 2)
C2_Witness ==
    /\ last.op = "ClaimReward" /\ IsOk(last)
    /\ last.info[1].public_seed = U64_HALF
    /\ last.info[1].host_seed = U64Of(2)
    /\ last.info[1].result = COptionSome(LOSE)

\* C3 (as claimed): on a pending Game whose stake does not double within a u64,
\* a winning ClaimReward fails with AmountOverflow and leaves the ledger as it
\* was, whatever the build's overflow mode.
C3_OverflowingWinFailsWithAmountOverflow ==
    \A g \in Games, host_seed \in AllSeeds, public_seed \in AllSeeds,
       overflow_checks \in BOOLEAN :
        (/\ Pending(g)
         /\ overflowing_add(stake[g][1], stake[g][1]).overflow
         /\ GameResult(Move(public_seed), Move(host_seed)) = WIN)
        => LET r == WellFormedClaim(g, host_seed, public_seed, overflow_checks)
           IN  r.err = AmountOverflow /\ r.L = Ledger

\* C4 (as claimed): a ClaimReward that succeeds has had the pool transfer to
\* the receiving account exactly the stake on DRAW, nothing on LOSE and exactly
\* twice the stake on WIN, the stake being the amount of the NewGame call.
C4_PayoutByOutcome ==
    (last.op = "ClaimReward" /\ IsOk(last)) =>
        LET bet_amount == stake[last.info[1].game][1]
            double == overflowing_add(bet_amount, bet_amount)
            result == last.info[1].result[1]
            paid(amount) == << [source |-> "House", destination |-> "AliceTok",
                                amount |-> amount] >>
        IN  /\ result = DRAW => last.info[1].xfer = paid(bet_amount)
            /\ result = LOSE => last.info[1].xfer = << >>
            /\ result = WIN => ~double.overflow /\ last.info[1].xfer = paid(double.val)

\* The preconditions of NewGame other than the bet bounds: the player has
\* signed, the Config is initialized and its stake token is the mint of the
\* player's token account, the Game slot is rent-exempt and not initialized,
\* the pool is the Config's owner, and the transfer of the stake can be made
OtherNewGamePreconditions(game_creator, creator_token_account, game_account, house_token_account, amount) ==
    /\ game_creator.is_signer
    /\ ConfigOf("Cfg1").is_initialized
    /\ TokenMint[creator_token_account.id] = ConfigOf("Cfg1").mint_token_pubkey
    /\ is_exempt(lamports[game_account.id], Len(data[game_account.id]))
    /\ data[game_account.id] = ZeroBytes(GAME_ACCOUNT_STATE_SPACE)
    /\ key(house_token_account.id) = ConfigOf("Cfg1").owner_pubkey
    /\ house_token_account.id \in DOMAIN token
    /\ house_token_account.id # creator_token_account.id
    /\ TokenMint[house_token_account.id] = TokenMint[creator_token_account.id]
    /\ TokenOwner[creator_token_account.id] = key(game_creator.id)
    /\ LeU64(amount, token[creator_token_account.id])
    /\ ~overflowing_add(token[house_token_account.id], amount).overflow

\* C5: with all other preconditions met, NewGame(amount) succeeds exactly when
\* min_bet_amount <= amount <= max_bet_amount, and otherwise fails with
\* InvalidBetAmount having written nothing; no NewGame succeeds out of the
\* bounds and none fails with InvalidBetAmount within them.
C5_BetBounds ==
    \A game_creator \in Requests.new_game_creators,
       creator_token_account \in Requests.creator_token_accounts,
       game_account \in Requests.game_accounts,
       house_token_account \in Requests.house_token_accounts,
       amount \in Requests.amounts :
        LET r == process_new_game(Ledger, game_creator, creator_token_account,
                                  game_account, house_token_account,
                                  AccountInfo("Cfg1", FALSE), amount, TRUE)
            in_bounds == /\ LeU64(ConfigOf("Cfg1").min_bet_amount, amount)
                         /\ LeU64(amount, ConfigOf("Cfg1").max_bet_amount)
        IN  /\ IsOk(r) => in_bounds
            /\ r.err = InvalidBetAmount => ~in_bounds /\ r.L = Ledger
            /\ OtherNewGamePreconditions(game_creator, creator_token_account,
                                         game_account, house_token_account, amount)
               => IF in_bounds THEN IsOk(r)
                  ELSE r.err = InvalidBetAmount /\ r.L = Ledger

\* C5 witness: a NewGame has succeeded with amount = max_bet_amount, above
\* min_bet_amount
C5_Witness ==
    /\ last.op = "NewGame" /\ IsOk(last)
    /\ last.info[1].amount = ConfigOf("Cfg1").max_bet_amount
    /\ LtU64(ConfigOf("Cfg1").min_bet_amount, last.info[1].amount)

\* C6: the total_games of an initialized Config is the number of NewGame calls
\* that have succeeded on it, whatever else has run in between; on a Config
\* that is not initialized none has succeeded.
C6_TotalGamesCountsNewGames ==
    \A c \in Configs :
        IF ConfigOf(c).is_initialized
        THEN ConfigOf(c).total_games = U64Of(created[c])
        ELSE created[c] = 0

\* C6 witness: the second NewGame of a Config has succeeded after a
\* ClaimReward had
C6_Witness ==
    /\ last.op = "NewGame" /\ IsOk(last)
    /\ created["Cfg1"] = 2
    /\ claimed # {}

\* C7: on an initialized Config, UpdateConfig and Withdraw signed by an account
\* other than the Config's owner fail with InvalidAccountOwner having written
\* nothing, whatever the bounds, the pool and the amount they ask for.
C7_OnlyOwnerUpdatesAndWithdraws ==
    \A config_creator \in Requests.config_creators :
        (/\ config_creator.is_signer
         /\ ConfigOf("Cfg1").is_initialized
         /\ key(config_creator.id) # ConfigOf("Cfg1").owner_pubkey)
        => /\ \A pair \in Requests.pairs :
                LET r == process_update_config(Ledger, config_creator,
                                               AccountInfo("Cfg1", FALSE),
                                               pair[1], pair[2])
                IN  r.err = "InvalidAccountOwner" /\ r.L = Ledger
           /\ \A house_token_account \in Requests.house_token_accounts,
                 amount \in Requests.withdraw_amounts :
                LET r == process_withdraw(Ledger, config_creator,
                                          AccountInfo("Cfg1", FALSE),
                                          house_token_account,
                                          AccountInfo("PDA", FALSE), amount)
                IN  r.err = "InvalidAccountOwner" /\ r.L = Ledger

\* C7 witness: a Withdraw has failed with InvalidAccountOwner on a Config that
\* has taken a stake
C7_Witness ==
    /\ last.op = "Withdraw" /\ last.err = "InvalidAccountOwner"
    /\ created["Cfg1"] > 0

\* The payload width of a tag in the wire table
PayloadWidth(tag) == IF tag \in {1, 4} THEN 8 ELSE 16

\* The instruction of a tag in the wire table
InstructionName(tag) ==
    CASE tag = 0 -> "Initialize" [] tag = 1 -> "NewGame" [] tag = 2 -> "ClaimReward"
      [] tag = 3 -> "UpdateConfig" [] tag = 4 -> "Withdraw"

\* C8 (as claimed): a buffer of a tag in 0..4 followed by a payload of the
\* tag's full width decodes to the instruction of that tag, each field being
\* the little-endian u64 of its eight bytes (the second field, of tags 0, 2
\* and 3, those of payload bytes 8..16).
C8_FullWidthPayloadDecodes ==
    (/\ last.op = "process"
     /\ last.info[1].instruction_data # << >>
     /\ Head(last.info[1].instruction_data) \in 0..4
     /\ Len(last.info[1].instruction_data)
            = 1 + PayloadWidth(Head(last.info[1].instruction_data)))
    => LET tag == Head(last.info[1].instruction_data)
           payload == Tail(last.info[1].instruction_data)
           instruction == last.info[1].instruction
       IN  /\ IsOk(instruction)
           /\ instruction.val.name = InstructionName(tag)
           /\ Len(instruction.val.fields) = PayloadWidth(tag) \div 8
           /\ \A i \in 1..Len(instruction.val.fields) :
                 to_le_bytes(instruction.val.fields[i])
                     = SubSeq(payload, 8 * i - 7, 8 * i)

\* C9: an empty buffer, a buffer with a tag outside 0..4 and a buffer whose
\* payload is shorter than its tag's width are refused with InvalidInstruction;
\* no handler runs and nothing is written.
C9_MalformedRefused ==
    (/\ last.op = "process"
     /\ \/ last.info[1].instruction_data = << >>
        \/ Head(last.info[1].instruction_data) \notin 0..4
        \/ Len(last.info[1].instruction_data)
               < 1 + PayloadWidth(Head(last.info[1].instruction_data)))
    => /\ last.err = InvalidInstruction
       /\ ~IsOk(last.info[1].instruction)
       /\ last.info[1].handler = "none"
       /\ ~last.info[1].wrote
       /\ data = [a \in Configs \cup Games |->
                    IF a \in Configs THEN ZeroBytes(CONFIG_ACCOUNT_STATE_SPACE)
                    ELSE ZeroBytes(GAME_ACCOUNT_STATE_SPACE)]

\* C9 witness: a NewGame buffer one byte short has been refused
C9_Witness ==
    /\ last.op = "process"
    /\ Len(last.info[1].instruction_data) = 8
    /\ Head(last.info[1].instruction_data) = 1
    /\ last.err = InvalidInstruction

\* C10: a Game or Config record packed into account data and unpacked from it
\* comes back as the record it was, for a result of None and of Some(r) for
\* every byte r, whatever the data held before; the checked unpack returns it
\* too when the record is initialized (and refuses an uninitialized one).
C10_PackUnpackRoundTrip ==
    (last.op \in {"Game::unpack", "Config::unpack"}) =>
        /\ last.info[1].unchecked = Ok(last.info[1].src)
        /\ last.info[1].checked =
               IF last.info[1].src.is_initialized THEN Ok(last.info[1].src)
               ELSE Err("UninitializedAccount")

\* C10 witness: a Game with the result Some(255) has come back from data that
\* held another result before
C10_Witness ==
    /\ last.op = "Game::unpack"
    /\ last.info[1].src.result = COptionSome(U8_MAX)
    /\ IsOk(last.info[1].unchecked)
    /\ data["G2"] = UsedBytes(GAME_ACCOUNT_STATE_SPACE)

\* The presence tag of a Game window, read as a little-endian u32, is 0 or 1
TagIsZeroOrOne(window) ==
    /\ window[42] \in {0, 1}
    /\ window[43] = 0 /\ window[44] = 0 /\ window[45] = 0

\* C11: unpacking a Config or Game window whose initialized byte is neither 0
\* nor 1, or a Game window whose presence tag is neither 0 nor 1, returns
\* InvalidAccountData, from unpack_unchecked and from unpack alike, and never
\* a record; every other window drawn decodes to a record with unpack_unchecked.
C11_BadFlagOrTagRefused ==
    /\ last.op = "Game::unpack" =>
          LET window == data[last.info[1].account]
              bad == window[1] \notin {0, 1} \/ ~TagIsZeroOrOne(window)
          IN  IF bad
              THEN /\ last.info[1].unchecked = Err("InvalidAccountData")
                   /\ last.info[1].checked = Err("InvalidAccountData")
              ELSE IsOk(last.info[1].unchecked)
    /\ last.op = "Config::unpack" =>
          LET window == data[last.info[1].account]
          IN  IF window[1] \notin {0, 1}
              THEN /\ last.info[1].unchecked = Err("InvalidAccountData")
                   /\ last.info[1].checked = Err("InvalidAccountData")
              ELSE IsOk(last.info[1].unchecked)

\* C11 witness: a Game window with a good flag whose tag reads 256 (second
\* byte 1) has been refused
C11_Witness ==
    /\ last.op = "Game::unpack"
    /\ data[last.info[1].account][1] = 1
    /\ SubSeq(data[last.info[1].account], 42, 45) = << 0, 1, 0, 0 >>
    /\ last.err = "InvalidAccountData"

\* C12 (as claimed): a ClaimReward succeeds only when the player who signed it
\* is the Game's creator and the house account that signed it is the owner of
\* the Config.
C12_ClaimSignedByCreatorAndHouse ==
    \A game_creator \in Requests.claim_creators,
       house_account \in Requests.house_accounts,
       game_account \in Requests.game_accounts,
       house_token_account \in Requests.house_token_accounts,
       host_seed \in Requests.host_seeds, public_seed \in Requests.public_seeds :
        IsOk(process_claim(Ledger, game_creator, house_account, game_account,
                           AccountInfo("AliceTok", FALSE), house_token_account,
                           AccountInfo("Cfg1", FALSE), AccountInfo("PDA", FALSE),
                           host_seed, public_seed, TRUE))
        => /\ game_creator.is_signer
           /\ key(game_creator.id)
                  = Game_unpack_from_slice(data[game_account.id]).val.game_creator_pubkey
           /\ house_account.is_signer
           /\ key(house_account.id) = ConfigOf("Cfg1").owner_pubkey

\* C13 (as claimed): every initialized Config has min_bet_amount <= max_bet_amount.
C13_MinAtMostMax ==
    \A c \in Configs :
        ConfigOf(c).is_initialized
        => LeU64(ConfigOf(c).min_bet_amount, ConfigOf(c).max_bet_amount)

\* C14: Initialize on a Config slot that is rent-exempt and not initialized
\* succeeds for a signer and writes exactly total_games = 0, the given bounds,
\* owner = the signer and the given stake token, touching nothing else; on an
\* initialized Config every Initialize fails leaving the ledger as it was, a
\* signed one with AccountAlreadyInitialized.
C14_InitializedOnce ==
    \A config_creator \in Requests.config_creators, pair \in Requests.pairs :
        LET r == process_initialize(Ledger, config_creator, AccountInfo("Cfg1", FALSE),
                                    AccountInfo("Mint1", FALSE), pair[1], pair[2])
        IN  IF ConfigOf("Cfg1").is_initialized
            THEN /\ ~IsOk(r)
                 /\ r.L = Ledger
                 /\ config_creator.is_signer => r.err = "AccountAlreadyInitialized"
            ELSE (/\ config_creator.is_signer
                  /\ is_exempt(lamports["Cfg1"], Len(data["Cfg1"])))
                 => /\ IsOk(r)
                    /\ Config_unpack(r.L.data["Cfg1"])
                           = Ok(Config(TRUE, U64Of(0), pair[1], pair[2],
                                       key(config_creator.id), key("Mint1")))
                    /\ r.L = [Ledger EXCEPT !.data["Cfg1"] = r.L.data["Cfg1"]]

\* C14 witness: an Initialize has been refused as already initialized on a
\* Config that has counted a game
C14_Witness ==
    /\ last.op = "Initialize" /\ last.err = "AccountAlreadyInitialized"
    /\ ConfigOf("Cfg1").total_games = U64Of(1)

\* C16: a ClaimReward that succeeds, whatever the outcome, leaves the Game
\* account with a balance of 0 and no data and the creator's balance grown by
\* exactly the Game account's former balance, every other balance as it was; a
\* ClaimReward that fails has changed no balance.
C16_ClaimClosesGame ==
    \A game_creator \in Requests.claim_creators,
       house_account \in Requests.house_accounts,
       game_account \in Requests.game_accounts,
       house_token_account \in Requests.house_token_accounts,
       host_seed \in Requests.host_seeds, public_seed \in Requests.public_seeds :
        LET r == process_claim(Ledger, game_creator, house_account, game_account,
                               AccountInfo("AliceTok", FALSE), house_token_account,
                               AccountInfo("Cfg1", FALSE), AccountInfo("PDA", FALSE),
                               host_seed, public_seed, TRUE)
            grown == overflowing_add(lamports[game_creator.id], lamports[game_account.id])
        IN  IF IsOk(r)
            THEN /\ r.L.lamports[game_account.id] = U64Of(0)
                 /\ r.L.data[game_account.id] = << >>
                 /\ ~grown.overflow
                 /\ r.L.lamports[game_creator.id] = grown.val
                 /\ \A a \in DOMAIN lamports \ {game_account.id, game_creator.id} :
                       r.L.lamports[a] = lamports[a]
            ELSE r.L.lamports = lamports

\* C16 witness: a claim resolved to LOSE has closed its Game account
C16_Witness ==
    /\ last.op = "ClaimReward" /\ IsOk(last)
    /\ last.info[1].result = COptionSome(LOSE)
    /\ lamports[last.info[1].game] = U64Of(0)
    /\ data[last.info[1].game] = << >>
    /\ LtU64(U64Of(5000), lamports["Alice"])

\* The preconditions of NewGame one by one, on a request against Cfg1
SlotRentExempt(game_account) ==
    ~LtU64(lamports[game_account.id], minimum_balance(Len(data[game_account.id])))

SlotInitialized(game_account) ==
    /\ Len(data[game_account.id]) = GAME_ACCOUNT_STATE_SPACE
    /\ data[game_account.id][1] = 1

TokenTypeMatches(creator_token_account) ==
    TokenMint[creator_token_account.id] = ConfigOf("Cfg1").mint_token_pubkey

PoolIsOwner(house_token_account) ==
    key(house_token_account.id) = ConfigOf("Cfg1").owner_pubkey

InBounds(amount) ==
    /\ LeU64(ConfigOf("Cfg1").min_bet_amount, amount)
    /\ LeU64(amount, ConfigOf("Cfg1").max_bet_amount)

\* The error of the first violated precondition in the order of the claim:
\* rent, slot not initialized, token type, pool, bounds ("none": all hold)
FirstErrorAsClaimed(creator_token_account, game_account, house_token_account, amount) ==
    IF ~SlotRentExempt(game_account) THEN NotRentExempt
    ELSE IF SlotInitialized(game_account) THEN "AccountAlreadyInitialized"
    ELSE IF ~TokenTypeMatches(creator_token_account) THEN "InvalidAccountData"
    ELSE IF ~PoolIsOwner(house_token_account) THEN "InvalidAccountData"
    ELSE IF ~InBounds(amount) THEN InvalidBetAmount
    ELSE "none"

\* The same with the token type first: token type, rent, slot not
\* initialized, pool, bounds
FirstErrorTokenTypeFirst(creator_token_account, game_account, house_token_account, amount) ==
    IF ~TokenTypeMatches(creator_token_account) THEN "InvalidAccountData"
    ELSE IF ~SlotRentExempt(game_account) THEN NotRentExempt
    ELSE IF SlotInitialized(game_account) THEN "AccountAlreadyInitialized"
    ELSE IF ~PoolIsOwner(house_token_account) THEN "InvalidAccountData"
    ELSE IF ~InBounds(amount) THEN InvalidBetAmount
    ELSE "none"

\* C17 (as claimed): a signed NewGame on an initialized Config that violates
\* preconditions returns the error of the first violated one in the order
\* rent-exempt slot, slot not initialized, token type, pool, bounds.
C17_ErrorOrderAsClaimed ==
    \A creator_token_account \in Requests.creator_token_accounts,
       game_account \in Requests.game_accounts,
       house_token_account \in Requests.house_token_accounts,
       amount \in Requests.amounts :
        LET expected == FirstErrorAsClaimed(creator_token_account, game_account,
                                            house_token_account, amount)
        IN  (ConfigOf("Cfg1").is_initialized /\ expected # "none")
            => process_new_game(Ledger, AccountInfo("Alice", TRUE),
                                creator_token_account, game_account,
                                house_token_account, AccountInfo("Cfg1", FALSE),
                                amount, TRUE).err = expected

\* C17 (amended): a signed NewGame on an initialized Config that violates
\* preconditions returns the error of the first violated one in the order
\* token type (InvalidAccountData), rent-exempt slot (NotRentExempt), slot not
\* initialized (AccountAlreadyInitialized), pool (InvalidAccountData), bounds
\* (InvalidBetAmount), and has written nothing.
C17_ErrorOrder ==
    \A creator_token_account \in Requests.creator_token_accounts,
       game_account \in Requests.game_accounts,
       house_token_account \in Requests.house_token_accounts,
       amount \in Requests.amounts :
        LET expected == FirstErrorTokenTypeFirst(creator_token_account, game_account,
                                                 house_token_account, amount)
            r == process_new_game(Ledger, AccountInfo("Alice", TRUE),
                                  creator_token_account, game_account,
                                  house_token_account, AccountInfo("Cfg1", FALSE),
                                  amount, TRUE)
        IN  (ConfigOf("Cfg1").is_initialized /\ expected # "none")
            => r.err = expected /\ r.L = Ledger

\* C17 witness: a NewGame has been refused as not rent-exempt, on the slot of
\* a closed Game, while the other slot holds an initialized Game
C17_Witness ==
    /\ last.op = "NewGame" /\ last.err = NotRentExempt
    /\ \E g \in Games : SlotInitialized(AccountInfo(g, FALSE))
    /\ \E g \in Games : ~SlotRentExempt(AccountInfo(g, FALSE))

C19_ClaimErrors ==
    \A game_creator \in Requests.claim_creators,
       house_account \in Requests.house_accounts,
       game_account \in Requests.game_accounts,
       house_token_account \in Requests.house_token_accounts,
       host_seed \in Requests.host_seeds, public_seed \in Requests.public_seeds :
        LET r == process_claim(Ledger, game_creator, house_account, game_account,
                               AccountInfo("AliceTok", FALSE), house_token_account,
                               AccountInfo("Cfg1", FALSE), AccountInfo("PDA", FALSE),
                               host_seed, public_seed, TRUE)
            signed == game_creator.is_signer /\ house_account.is_signer
            refused(err) == r.err = err /\ r.L = Ledger /\ r.xfer = << >>
        IN  /\ ~signed => refused("MissingRequiredSignature")
            /\ (/\ signed
                /\ Pending(game_account.id)
                /\ key(game_creator.id)
                       # Game_unpack_from_slice(data[game_account.id]).val.game_creator_pubkey)
               => refused("InvalidAccountData")
            /\ (/\ signed
                /\ Pending(game_account.id)
                /\ ConfigOf("Cfg1").is_initialized
                /\ key(house_token_account.id) # ConfigOf("Cfg1").owner_pubkey)
               => refused("InvalidAccountData")

\* C19 witness: a claim has been refused with InvalidAccountData while both
\* Games are pending
C19_Witness ==
    /\ last.op = "ClaimReward" /\ last.err = "InvalidAccountData"
    /\ \A g \in Games : Pending(g)

\* C20: in every step from an initialized Config, the Config stays
\* initialized, total_games does not decrease, owner and stake token stay as
\* they are, total_games changes only in a successful NewGame and the bounds
\* change only in a successful UpdateConfig.  (A step that leaves the
\* Config's bytes as they are leaves every field as it is.)
C20_ConfigFieldsStable ==
    [][\A c \in Configs :
          (ConfigOf(c).is_initialized /\ data'[c] # data[c]) =>
              /\ ConfigOf(c)'.is_initialized
              /\ LeU64(ConfigOf(c).total_games, ConfigOf(c)'.total_games)
              /\ ConfigOf(c)'.owner_pubkey = ConfigOf(c).owner_pubkey
              /\ ConfigOf(c)'.mint_token_pubkey = ConfigOf(c).mint_token_pubkey
              /\ ConfigOf(c)'.total_games # ConfigOf(c).total_games
                     => last'.op = "NewGame" /\ IsOk(last')
              /\ (\/ ConfigOf(c)'.min_bet_amount # ConfigOf(c).min_bet_amount
                  \/ ConfigOf(c)'.max_bet_amount # ConfigOf(c).max_bet_amount)
                     => last'.op = "UpdateConfig" /\ IsOk(last')]_vars

\* C20 witness: an UpdateConfig has changed the bounds of a Config that had
\* counted two games, after a claim
C20_Witness ==
    /\ last.op = "UpdateConfig" /\ IsOk(last)
    /\ ConfigOf("Cfg1").total_games = U64Of(2)
    /\ GtU64(ConfigOf("Cfg1").min_bet_amount, ConfigOf("Cfg1").max_bet_amount)
    /\ claimed # {}

\* The errors of the token program's Transfer that no handler returns itself
TransferErrors == {"InsufficientFunds", "MintMismatch", "OwnerMismatch", "Overflow"}

\* The amount a claim on Game g with these seeds asks the pool to pay, as a
\* sequence: none on LOSE, the stake on DRAW, twice the stake on WIN
AskedOfPool(g, host_seed, public_seed) ==
    LET result == GameResult(Mod5(public_seed), Mod5(host_seed))
    IN  IF result = LOSE THEN << >>
        ELSE IF result = DRAW THEN << stake[g][1] >>
        ELSE << overflowing_add(stake[g][1], stake[g][1]).val >>

\* A NewGame that passes every check of the handler and whose transfer of the
\* stake the token program refuses returns the token program's error
NewGameTransferRefused ==
    \A game_creator \in TransferRequests.new_game_creators,
       game_account \in TransferRequests.game_accounts,
       amount \in TransferRequests.amounts :
        LET sent == TokenTransfer(Ledger, "AliceTok", "House", key(game_creator.id),
                                  TRUE, amount)
        IN  (/\ ConfigOf("Cfg1").is_initialized
             /\ FirstErrorTokenTypeFirst(AccountInfo("AliceTok", FALSE), game_account,
                                         AccountInfo("House", FALSE), amount) = "none"
             /\ ~IsOk(sent))
            => process_new_game(Ledger, game_creator, AccountInfo("AliceTok", FALSE),
                                game_account, AccountInfo("House", FALSE),
                                AccountInfo("Cfg1", FALSE), amount, TRUE).err = sent.err

\* A well-formed ClaimReward on a pending Game whose payout the token program
\* refuses returns the token program's error
ClaimTransferRefused ==
    \A g \in Games, host_seed \in TransferRequests.host_seeds,
       public_seed \in TransferRequests.public_seeds :
        (/\ Pending(g)
         /\ ~overflowing_add(stake[g][1], stake[g][1]).overflow
         /\ AskedOfPool(g, host_seed, public_seed) # << >>
         /\ ~IsOk(TokenTransfer(Ledger, "House", "AliceTok", pda, TRUE,
                                AskedOfPool(g, host_seed, public_seed)[1])))
        => WellFormedClaim(g, host_seed, public_seed, TRUE).err
               = TokenTransfer(Ledger, "House", "AliceTok", pda, TRUE,
                               AskedOfPool(g, host_seed, public_seed)[1]).err

\* C15: a NewGame or ClaimReward whose token transfer fails returns the
\* transfer's error, and a step in which one has does not change the ledger:
\* total_games, the Game slot, the Game's pending state and lamports and every
\* token balance are as before, so the same Game can be claimed again.
C15_TransferFailureAborts ==
    /\ [](NewGameTransferRefused /\ ClaimTransferRefused)
    /\ [][(last'.op \in {"NewGame", "ClaimReward"} /\ last'.err \in TransferErrors)
             => UNCHANGED << data, lamports, token, created, claimed, stake >>]_vars

\* C15 witness: a ClaimReward has failed for lack of funds in the pool and
\* its Game is pending with its lamports, while the other slot is still fresh
\* after a NewGame the token program refused
C15_Witness ==
    /\ last.op = "ClaimReward" /\ last.err = "InsufficientFunds"
    /\ Pending("G1")
    /\ lamports["G1"] = minimum_balance(GAME_ACCOUNT_STATE_SPACE)
    /\ data["G2"] = ZeroBytes(GAME_ACCOUNT_STATE_SPACE)
    /\ created["Cfg1"] = 1

\* The request last ran succeeded and had the token program move tokens out
\* of the token account p: the transfer the handler asked for, not one of a
\* token account to itself
PaidFrom(p) ==
    /\ last.err = "Ok"
    /\ last.op \in {"ClaimReward", "Withdraw"}
    /\ last.info[1].xfer # << >>
    /\ last.info[1].xfer[1].source = p
    /\ last.info[1].xfer[1].destination # p

C22_GameBoundToConfig ==
    \A c \in AllConfigs :
      (/\ last.op = "ClaimReward"
       /\ last.err = "Ok"
       /\ \/ last.info[1].config = c
          \/ /\ last.info[1].xfer # << >>
             /\ key(last.info[1].xfer[1].source) = ConfigOf(c).owner_pubkey)
      => created[c] > 0

\* The i-th limbs of the balances of the token accounts, added up
RECURSIVE LimbSum(_, _, _)
LimbSum(t, accounts, i) ==
    IF accounts = {} THEN 0
    ELSE LET a == CHOOSE x \in accounts : TRUE
         IN  t[a][i] + LimbSum(t, accounts \ {a}, i)

\* The sum of all token balances as a number of five limbs: wider than u64,
\* so the sum itself never wraps
TotalTokens(t) ==
    LET s1 == LimbSum(t, DOMAIN t, 1)
        s2 == LimbSum(t, DOMAIN t, 2) + (s1 \div LimbBase)
        s3 == LimbSum(t, DOMAIN t, 3) + (s2 \div LimbBase)
        s4 == LimbSum(t, DOMAIN t, 4) + (s3 \div LimbBase)
    IN  << s1 % LimbBase, s2 % LimbBase, s3 % LimbBase, s4 % LimbBase,
           s4 \div LimbBase >>

\* amount <= 2 * bet_amount, the product taken as a number
AtMostTwice(amount, bet_amount) ==
    LET twice == overflowing_add(bet_amount, bet_amount)
    IN  twice.overflow \/ LeU64(amount, twice.val)

\* C23: tokens are conserved: no step changes the sum of the balances of the
\* pools' and the players' token accounts (the owner's account, the key a
\* Withdraw pays to, is among them); and a Game is paid for at most once, by
\* the ClaimReward that settles it, with at most 2 * bet_amount.
C23_TokensConserved ==
    /\ [][token' # token => TotalTokens(token') = TotalTokens(token)]_vars
    /\ [][(last'.op = "ClaimReward" /\ last'.err = "Ok")
          => LET info == last'.info[1]
             IN  /\ info.game \notin claimed
                 /\ stake[info.game] # NoStake
                 /\ info.xfer # << >>
                      => AtMostTwice(info.xfer[1].amount, stake[info.game][1])
                 /\ \A a \in DOMAIN token :
                      LtU64(token'[a], token[a]) =>
                        /\ info.xfer # << >>
                        /\ a = info.xfer[1].source
                        /\ overflowing_sub(token[a], token'[a]).val
                             = info.xfer[1].amount]_vars

\* Tokens have moved by all three transfers: a stake went into one pool, a
\* WIN of twice the stake was paid, and a Withdraw took tokens from a pool
C23_Witness ==
    /\ last.op = "Withdraw"
    /\ last.err = "Ok"
    /\ last.info[1].xfer[1].source # last.info[1].xfer[1].destination
    /\ "G1" \in claimed
    /\ stake["G1"] = << U64Of(2) >>
    /\ token["AliceTok"] = overflowing_add(U64_HALF, U64Of(6)).val

\* The moves: seed mod 5
Moves == 0..4

\* The outcome by the reduced value: (selection + 5 - host_result) mod 5,
\* compared against {1, 3}
ReducedOutcome(selection, host_result) ==
    IF selection = host_result THEN DRAW
    ELSE IF ((selection + 5 - host_result) % 5) \in {1, 3} THEN LOSE
    ELSE WIN

\* The moves the move a wins against, and those it loses to
Beats(a) == {b \in Moves : GameResult(a, b) = WIN}

LosesTo(a) == {b \in Moves : GameResult(a, b) = LOSE}

\* C24: for every pair of moves in 0..4 the literal comparison of
\* selection + 5 - host_result against {1, 3, 6, 8} gives the outcome that
\* reducing the value mod 5 and comparing against {1, 3} gives, and so does
\* every ClaimReward that has succeeded; the relation is a beats relation of
\* five options: for distinct moves a and b, (a, b) is WIN exactly when (b, a)
\* is LOSE, and every move wins against exactly two moves and loses to
\* exactly two.
C24_ReducedRuleAndBeatsRelation ==
    /\ \A a, b \in Moves :
         /\ GameResult(a, b) = ReducedOutcome(a, b)
         /\ a # b => (GameResult(a, b) = WIN <=> GameResult(b, a) = LOSE)
    /\ \A a \in Moves :
         /\ Cardinality(Beats(a)) = 2
         /\ Cardinality(LosesTo(a)) = 2
    /\ (last.op = "ClaimReward" /\ IsOk(last)) =>
         LET selection == Move(last.info[1].public_seed)
             host_result == Move(last.info[1].host_seed)
         IN  /\ selection \in Moves
             /\ host_result \in Moves
             /\ last.info[1].result
                  = COptionSome(ReducedOutcome(selection, host_result))

\* A claim has resolved LOSE on a value above 5: the moves (4, 1), value 8
C24_Witness ==
    /\ last.op = "ClaimReward"
    /\ IsOk(last)
    /\ Move(last.info[1].public_seed) = 4
    /\ Move(last.info[1].host_seed) = 1
    /\ last.info[1].result = COptionSome(LOSE)

====
